---------------------------- MODULE Spec2Model ----------------------------
(***************************************************************************)
(* A model of the transport and response-decoding core of gwda (gwda.go):  *)
(* executeHTTP with its process-wide mutex, the rawResponse decoders, the  *)
(* element identifier resolver and the selector encoder.                   *)
(*                                                                         *)
(* Go strings that the code inspects character by character are sequences  *)
(* of one-character strings ("" is <<>>).  A rawResponse is represented by *)
(* the JSON document its bytes spell, or by Malformed when they spell      *)
(* none; encoding/json is modelled by its decoding rules per target type.  *)
(***************************************************************************)
EXTENDS Integers, Sequences, FiniteSets, TLC

VARIABLES
    \* executeHTTP
    mutex, debugFlag, pc, client, resp, rawResp, err, bodyState,
    sent, closed, readCalled, checked, logged,
    \* rawResponse decoders
    raw, op, out,
    \* elementIDFromValue
    val, resolved, id,
    \* BySelector.getUsingAndValue
    sel, encoded,
    \* ElementType.String
    flags, typeName,
    \* keepAlive
    DefaultKeepAliveInterval, poller, ticker, tickerC, ticks, received,
    checks, failures,
    \* SourceOption
    opt, method, calls

httpVars == <<mutex, debugFlag, pc, client, resp, rawResp, err, bodyState,
              sent, closed, readCalled, checked, logged>>
decodeVars == <<raw, op, out>>
resolveVars == <<val, resolved, id>>
selVars == <<sel, encoded>>
typeVars == <<flags, typeName>>
keepVars == <<DefaultKeepAliveInterval, poller, ticker, tickerC, ticks,
              received, checks, failures>>
optVars == <<opt, method, calls>>
vars == <<httpVars, decodeVars, resolveVars, selVars, typeVars, keepVars,
          optVars>>

(***************************************************************************)
(* Bounds.                                                                 *)
(***************************************************************************)
\* concurrent executeHTTP calls
NumCalls == 2
\* entries of a wire list of elements
MaxLen == 2
\* successive getUsingAndValue calls on one selector
MaxEncodes == 2
\* flags of an ElementType that are true at once
MaxTrueFlags == 2
\* pieces that make up value.message
MaxPieces == 3
\* bytes of a base64 payload
MaxBytes == 3
\* ticks a ticker produces
MaxTicks == 6
\* calls of SourceOption methods on one option
MaxOptCalls == 6

(***************************************************************************)
(* JSON documents.                                                         *)
(***************************************************************************)
Malformed == [k |-> "bad"]
JNull == [k |-> "null"]
JNum == [k |-> "num"]
JBool(b) == [k |-> "bool", b |-> b]
JStr(s) == [k |-> "str", s |-> s]
JArr(a) == [k |-> "arr", a |-> a]
JObj(o) == [k |-> "obj", o |-> o]
Envelope(v) == JObj("value" :> v)
JMap(m) == JObj([key \in DOMAIN m |-> JStr(m[key])])

\* the nil rawResponse
NilRaw == [k |-> "nil"]

(***************************************************************************)
(* Error values.                                                           *)
(***************************************************************************)
Nil == [kind |-> "nil", msg |-> <<>>]
ErrSyntax == [kind |-> "json.SyntaxError", msg |-> <<>>]
ErrType == [kind |-> "json.UnmarshalTypeError", msg |-> <<>>]
ErrNewRequest == [kind |-> "http.NewRequest", msg |-> <<>>]
ErrTransport == [kind |-> "client.Do", msg |-> <<>>]
ErrRead == [kind |-> "ioutil.ReadAll", msg |-> <<>>]
ErrBase64 == [kind |-> "base64.CorruptInputError", msg |-> <<>>]
errNoSuchElement == [kind |-> "errNoSuchElement", msg |-> <<"n","o"," ","s","u","c","h"," ","e","l","e","m","e","n","t">>]
ErrInvalidElement == [kind |-> "invalid element returned", msg |-> <<>>]
Errorf(code, text) == [kind |-> "fmt.Errorf", msg |-> code \o <<":", " ">> \o text]

StatusOK == 200

legacyWebElementIdentifier == "ELEMENT"
webElementIdentifier == "element-6066-11e4-a52e-4f735466cecf"

(***************************************************************************)
(* encoding/json, as used by the decoders: json.Unmarshal(r, reply) where  *)
(* reply is struct{ Value T }.                                             *)
(***************************************************************************)
\* the error of decoding the top level into a struct
UnmarshalTop(r) ==
    IF r.k = "bad" THEN ErrSyntax
    ELSE IF r.k \in {"obj", "null"} THEN Nil
    ELSE ErrType

\* the document decoded into the Value field; an absent key leaves the field
\* at its zero value, as a null does
ValueField(r) ==
    IF r.k = "obj" /\ "value" \in DOMAIN r.o THEN r.o["value"] ELSE JNull

\* a Go string target
DecodeString(x) ==
    [err |-> IF x.k \in {"str", "null"} THEN Nil ELSE ErrType,
     v   |-> IF x.k = "str" THEN x.s ELSE <<>>]

\* a Go bool target
DecodeBool(x) ==
    [err |-> IF x.k \in {"bool", "null"} THEN Nil ELSE ErrType,
     v   |-> IF x.k = "bool" THEN x.b ELSE FALSE]

\* a map[string]string target
DecodeStringMap(x) ==
    IF x.k = "obj"
    THEN [err |-> IF \A key \in DOMAIN x.o : DecodeString(x.o[key]).err = Nil
                  THEN Nil ELSE ErrType,
          v   |-> [key \in DOMAIN x.o |-> DecodeString(x.o[key]).v]]
    ELSE [err |-> IF x.k = "null" THEN Nil ELSE ErrType, v |-> <<>>]

\* a []map[string]string target
DecodeMapList(x) ==
    IF x.k = "arr"
    THEN [err |-> IF \A i \in 1..Len(x.a) : DecodeStringMap(x.a[i]).err = Nil
                  THEN Nil ELSE ErrType,
          v   |-> [i \in 1..Len(x.a) |-> DecodeStringMap(x.a[i]).v]]
    ELSE [err |-> IF x.k = "null" THEN Nil ELSE ErrType, v |-> <<>>]

\* struct{ Err, Message, Traceback string } with its json tags
ErrorField(x, name) ==
    IF x.k = "obj" /\ name \in DOMAIN x.o THEN DecodeString(x.o[name])
    ELSE [err |-> Nil, v |-> <<>>]

DecodeErrStruct(x) ==
    [err |-> IF x.k \notin {"obj", "null"} THEN ErrType
             ELSE IF \A name \in {"error", "message", "traceback"} :
                        ErrorField(x, name).err = Nil
                  THEN Nil ELSE ErrType,
     Err |-> ErrorField(x, "error").v,
     Message |-> ErrorField(x, "message").v]

\* json.Unmarshal into each of the three reply types
UnmarshalErrStruct(r) ==
    IF UnmarshalTop(r) # Nil THEN [err |-> UnmarshalTop(r)]
    ELSE DecodeErrStruct(ValueField(r))

UnmarshalStringMap(r) ==
    IF UnmarshalTop(r) # Nil THEN [err |-> UnmarshalTop(r)]
    ELSE DecodeStringMap(ValueField(r))

UnmarshalMapList(r) ==
    IF UnmarshalTop(r) # Nil THEN [err |-> UnmarshalTop(r)]
    ELSE DecodeMapList(ValueField(r))

(***************************************************************************)
(* regexp `{.+?=(.+?)}` (leftmost match, lazy repetitions).                *)
(***************************************************************************)
DotSpan(s, i, j) == \A n \in i..j : s[n] # "\n"

\* the positions <<k, m>> of '=' and '}' of the matches that start at i
MatchesAt(s, i) ==
    IF s[i] # "{" THEN {}
    ELSE {km \in ((i+2)..Len(s)) \X ((i+4)..Len(s)) :
            /\ km[2] >= km[1] + 2
            /\ s[km[1]] = "="
            /\ s[km[2]] = "}"
            /\ DotSpan(s, i+1, km[1]-1)
            /\ DotSpan(s, km[1]+1, km[2]-1)}

MatchString(s) == \E i \in 1..Len(s) : MatchesAt(s, i) # {}

\* FindStringSubmatch that returns the rightmost match
FindStringSubmatch_LastMatch(s) ==
    IF ~MatchString(s) THEN <<>>
    ELSE LET i == CHOOSE n \in 1..Len(s) :
                    /\ MatchesAt(s, n) # {}
                    /\ \A n2 \in (n+1)..Len(s) : MatchesAt(s, n2) = {}
             k == CHOOSE n \in 1..Len(s) :
                    /\ \E km \in MatchesAt(s, i) : km[1] = n
                    /\ \A km \in MatchesAt(s, i) : km[1] >= n
             m == CHOOSE n \in 1..Len(s) :
                    /\ <<k, n>> \in MatchesAt(s, i)
                    /\ \A km \in MatchesAt(s, i) : km[1] = k => km[2] >= n
         IN <<SubSeq(s, i, m), SubSeq(s, k+1, m-1)>>

\* <<whole match, group 1>> of the leftmost match; each lazy repetition takes
\* the fewest characters that still lets the rest match
FindStringSubmatch(s) ==
    IF ~MatchString(s) THEN <<>>
    ELSE LET i == CHOOSE n \in 1..Len(s) :
                    /\ MatchesAt(s, n) # {}
                    /\ \A n2 \in 1..(n-1) : MatchesAt(s, n2) = {}
             k == CHOOSE n \in 1..Len(s) :
                    /\ \E km \in MatchesAt(s, i) : km[1] = n
                    /\ \A km \in MatchesAt(s, i) : km[1] >= n
             m == CHOOSE n \in 1..Len(s) :
                    /\ <<k, n>> \in MatchesAt(s, i)
                    /\ \A km \in MatchesAt(s, i) : km[1] = k => km[2] >= n
         IN <<SubSeq(s, i, m), SubSeq(s, k+1, m-1)>>

(***************************************************************************)
(* rawResponse.checkErr                                                    *)
(***************************************************************************)
\* checkErr that drops the error of json.Unmarshal
checkErr_IgnoreDecodeError(r) ==
    LET reply == UnmarshalErrStruct(r)
    IN IF reply.err = Nil /\ reply.Err # <<>>
       THEN LET subMatch == FindStringSubmatch(reply.Message)
                errText == IF MatchString(reply.Message)
                           THEN subMatch[Len(subMatch)]
                           ELSE reply.Message
            IN Errorf(reply.Err, errText)
       ELSE Nil

checkErr(r) ==
    LET reply == UnmarshalErrStruct(r)
    IN IF reply.err # Nil THEN reply.err
       ELSE IF reply.Err # <<>>
       THEN LET subMatch == FindStringSubmatch(reply.Message)
                errText == IF MatchString(reply.Message)
                           THEN subMatch[Len(subMatch)]
                           ELSE reply.Message
            IN Errorf(reply.Err, errText)
       ELSE Nil

(***************************************************************************)
(* elementIDFromValue                                                      *)
(***************************************************************************)
RECURSIVE FirstNonEmpty(_, _)
FirstNonEmpty(m, keys) ==
    IF keys = <<>> THEN <<>>
    ELSE IF Head(keys) \in DOMAIN m /\ m[Head(keys)] # <<>>
         THEN m[Head(keys)]
         ELSE FirstNonEmpty(m, Tail(keys))

\* elementIDFromValue that checks the legacy key first
elementIDFromValue_LegacyFirst(m) ==
    FirstNonEmpty(m, <<legacyWebElementIdentifier, webElementIdentifier>>)

elementIDFromValue(m) ==
    FirstNonEmpty(m, <<webElementIdentifier, legacyWebElementIdentifier>>)

(***************************************************************************)
(* rawResponse.valueConvertToElementID / valueConvertToElementIDs          *)
(***************************************************************************)
\* valueConvertToElementID that reports every unresolved map as absent
valueConvertToElementID_Conflate(r) ==
    LET reply == UnmarshalStringMap(r)
    IN IF reply.err # Nil THEN [id |-> <<>>, err |-> reply.err]
       ELSE IF elementIDFromValue(reply.v) = <<>>
            THEN [id |-> <<>>, err |-> errNoSuchElement]
            ELSE [id |-> elementIDFromValue(reply.v), err |-> Nil]

valueConvertToElementID(r) ==
    LET reply == UnmarshalStringMap(r)
    IN IF reply.err # Nil THEN [id |-> <<>>, err |-> reply.err]
       ELSE IF DOMAIN reply.v = {} THEN [id |-> <<>>, err |-> errNoSuchElement]
       ELSE IF elementIDFromValue(reply.v) = <<>>
            THEN [id |-> <<>>, err |-> ErrInvalidElement]
            ELSE [id |-> elementIDFromValue(reply.v), err |-> Nil]

\* the loop over reply.Value from entry i on, IDs being the handles so far;
\* NilList is the nil slice
NilList == [isNil |-> TRUE, l |-> <<>>]

\* ResolveFrom that skips the entries that do not resolve
RECURSIVE ResolveFrom_Skip(_, _, _)
ResolveFrom_Skip(l, i, IDs) ==
    IF i > Len(l) THEN [IDs |-> [isNil |-> FALSE, l |-> IDs], err |-> Nil]
    ELSE IF elementIDFromValue(l[i]) = <<>>
         THEN ResolveFrom_Skip(l, i + 1, IDs)
         ELSE ResolveFrom_Skip(l, i + 1, Append(IDs, elementIDFromValue(l[i])))

RECURSIVE ResolveFrom(_, _, _)
ResolveFrom(l, i, IDs) ==
    IF i > Len(l) THEN [IDs |-> [isNil |-> FALSE, l |-> IDs], err |-> Nil]
    ELSE IF elementIDFromValue(l[i]) = <<>>
         THEN [IDs |-> NilList, err |-> ErrInvalidElement]
         ELSE ResolveFrom(l, i + 1, Append(IDs, elementIDFromValue(l[i])))

\* valueConvertToElementIDs without the test for the empty list
valueConvertToElementIDs_NoLenCheck(r) ==
    LET reply == UnmarshalMapList(r)
    IN IF reply.err # Nil THEN [IDs |-> NilList, err |-> reply.err]
       ELSE ResolveFrom(reply.v, 1, <<>>)

valueConvertToElementIDs(r) ==
    LET reply == UnmarshalMapList(r)
    IN IF reply.err # Nil THEN [IDs |-> NilList, err |-> reply.err]
       ELSE IF Len(reply.v) = 0 THEN [IDs |-> NilList, err |-> errNoSuchElement]
       ELSE ResolveFrom(reply.v, 1, <<>>)

(***************************************************************************)
(* rawResponse.valueConvertToString / Bool / SessionInfo / JsonRawMessage  *)
(***************************************************************************)
valueConvertToString(r) ==
    IF UnmarshalTop(r) # Nil THEN [s |-> <<>>, err |-> UnmarshalTop(r)]
    ELSE IF DecodeString(ValueField(r)).err # Nil
         THEN [s |-> <<>>, err |-> DecodeString(ValueField(r)).err]
         ELSE [s |-> DecodeString(ValueField(r)).v, err |-> Nil]

valueConvertToBool(r) ==
    IF UnmarshalTop(r) # Nil THEN [b |-> FALSE, err |-> UnmarshalTop(r)]
    ELSE IF DecodeBool(ValueField(r)).err # Nil
         THEN [b |-> FALSE, err |-> DecodeBool(ValueField(r)).err]
         ELSE [b |-> DecodeBool(ValueField(r)).v, err |-> Nil]

\* a struct of string fields with the given json tags
DecodeStringStruct(x, tags) ==
    [err |-> IF x.k \notin {"obj", "null"} THEN ErrType
             ELSE IF \A name \in tags : ErrorField(x, name).err = Nil
                  THEN Nil ELSE ErrType,
     v   |-> [name \in tags |-> ErrorField(x, name).v]]

CapabilityTags == {"device", "browserName", "sdkVersion", "CFBundleIdentifier"}
ZeroSessionInfo ==
    [SessionId |-> <<>>, Capabilities |-> [name \in CapabilityTags |-> <<>>]]

\* struct{ SessionInfo } with its fields sessionId and capabilities
DecodeSessionInfo(x) ==
    IF x.k = "obj"
    THEN LET caps == DecodeStringStruct(
                        IF "capabilities" \in DOMAIN x.o
                        THEN x.o["capabilities"] ELSE JNull, CapabilityTags)
         IN [err |-> IF ErrorField(x, "sessionId").err = Nil /\ caps.err = Nil
                     THEN Nil ELSE ErrType,
             v   |-> [SessionId |-> ErrorField(x, "sessionId").v,
                      Capabilities |-> caps.v]]
    ELSE [err |-> IF x.k = "null" THEN Nil ELSE ErrType, v |-> ZeroSessionInfo]

valueConvertToSessionInfo(r) ==
    IF UnmarshalTop(r) # Nil
    THEN [sessionInfo |-> ZeroSessionInfo, err |-> UnmarshalTop(r)]
    ELSE IF DecodeSessionInfo(ValueField(r)).err # Nil
         THEN [sessionInfo |-> ZeroSessionInfo,
               err |-> DecodeSessionInfo(ValueField(r)).err]
         ELSE [sessionInfo |-> DecodeSessionInfo(ValueField(r)).v, err |-> Nil]

\* json.RawMessage takes the bytes of any value, null included; an absent
\* value leaves it nil
valueConvertToJsonRawMessage(r) ==
    IF UnmarshalTop(r) # Nil THEN [raw |-> NilRaw, err |-> UnmarshalTop(r)]
    ELSE [raw |-> IF r.k = "obj" /\ "value" \in DOMAIN r.o
                  THEN r.o["value"] ELSE NilRaw,
          err |-> Nil]

(***************************************************************************)
(* base64.StdEncoding.  Bytes are the integers 0..255.                     *)
(***************************************************************************)
Base64Alphabet == <<
    "A", "B", "C", "D", "E", "F", "G", "H", "I", "J", "K", "L", "M",
    "N", "O", "P", "Q", "R", "S", "T", "U", "V", "W", "X", "Y", "Z",
    "a", "b", "c", "d", "e", "f", "g", "h", "i", "j", "k", "l", "m",
    "n", "o", "p", "q", "r", "s", "t", "u", "v", "w", "x", "y", "z",
    "0", "1", "2", "3", "4", "5", "6", "7", "8", "9", "+", "/" >>

Base64Char(n) == Base64Alphabet[n + 1]
IsBase64Char(c) == \E n \in 1..Len(Base64Alphabet) : Base64Alphabet[n] = c
Base64Index(c) == (CHOOSE n \in 1..Len(Base64Alphabet) : Base64Alphabet[n] = c) - 1

\* base64.StdEncoding.EncodeToString
RECURSIVE Base64EncodeToString(_)
Base64EncodeToString(b) ==
    IF Len(b) = 0 THEN <<>>
    ELSE IF Len(b) = 1
    THEN << Base64Char(b[1] \div 4), Base64Char((b[1] % 4) * 16), "=", "=" >>
    ELSE IF Len(b) = 2
    THEN << Base64Char(b[1] \div 4),
            Base64Char((b[1] % 4) * 16 + b[2] \div 16),
            Base64Char((b[2] % 16) * 4), "=" >>
    ELSE << Base64Char(b[1] \div 4),
            Base64Char((b[1] % 4) * 16 + b[2] \div 16),
            Base64Char((b[2] % 16) * 4 + b[3] \div 64),
            Base64Char(b[3] % 64) >>
         \o Base64EncodeToString(SubSeq(b, 4, Len(b)))

RECURSIVE StripNewlines(_)
StripNewlines(s) ==
    IF s = <<>> THEN <<>>
    ELSE IF Head(s) \in {"\r", "\n"} THEN StripNewlines(Tail(s))
    ELSE <<Head(s)>> \o StripNewlines(Tail(s))

\* the bytes of the quantum of four characters q, <<>> with ok = FALSE when
\* q is corrupt; padding is accepted in the last quantum only, and the bits
\* left over before the padding are not checked
DecodeQuantum(q, last) ==
    IF \A n \in 1..4 : IsBase64Char(q[n])
    THEN [ok |-> TRUE,
          v  |-> << Base64Index(q[1]) * 4 + Base64Index(q[2]) \div 16,
                    (Base64Index(q[2]) % 16) * 16 + Base64Index(q[3]) \div 4,
                    (Base64Index(q[3]) % 4) * 64 + Base64Index(q[4]) >>]
    ELSE IF last /\ IsBase64Char(q[1]) /\ IsBase64Char(q[2])
              /\ IsBase64Char(q[3]) /\ q[4] = "="
    THEN [ok |-> TRUE,
          v  |-> << Base64Index(q[1]) * 4 + Base64Index(q[2]) \div 16,
                    (Base64Index(q[2]) % 16) * 16 + Base64Index(q[3]) \div 4 >>]
    ELSE IF last /\ IsBase64Char(q[1]) /\ IsBase64Char(q[2])
              /\ q[3] = "=" /\ q[4] = "="
    THEN [ok |-> TRUE,
          v  |-> << Base64Index(q[1]) * 4 + Base64Index(q[2]) \div 16 >>]
    ELSE [ok |-> FALSE, v |-> <<>>]

RECURSIVE DecodeQuanta(_)
DecodeQuanta(s) ==
    IF Len(s) = 0 THEN [ok |-> TRUE, v |-> <<>>]
    ELSE IF Len(s) < 4 THEN [ok |-> FALSE, v |-> <<>>]
    ELSE LET q == DecodeQuantum(SubSeq(s, 1, 4), Len(s) = 4)
             rest == DecodeQuanta(SubSeq(s, 5, Len(s)))
         IN IF q.ok /\ rest.ok THEN [ok |-> TRUE, v |-> q.v \o rest.v]
            ELSE [ok |-> FALSE, v |-> <<>>]

\* base64.StdEncoding.DecodeString: line breaks are skipped
Base64DecodeString(s) ==
    LET d == DecodeQuanta(StripNewlines(s))
    IN [err |-> IF d.ok THEN Nil ELSE ErrBase64, v |-> d.v]

(***************************************************************************)
(* rawResponse.valueDecodeAsBase64                                         *)
(***************************************************************************)
\* the nil *bytes.Buffer
NilBuffer == [isNil |-> TRUE, b |-> <<>>]

\* valueDecodeAsBase64 that drops the error of DecodeString
valueDecodeAsBase64_IgnoreError(r) ==
    IF valueConvertToString(r).err # Nil
    THEN [buf |-> NilBuffer, err |-> valueConvertToString(r).err]
    ELSE [buf |-> [isNil |-> FALSE,
                   b |-> Base64DecodeString(valueConvertToString(r).s).v],
          err |-> Nil]

valueDecodeAsBase64(r) ==
    IF valueConvertToString(r).err # Nil
    THEN [buf |-> NilBuffer, err |-> valueConvertToString(r).err]
    ELSE IF Base64DecodeString(valueConvertToString(r).s).err # Nil
    THEN [buf |-> NilBuffer,
          err |-> Base64DecodeString(valueConvertToString(r).s).err]
    ELSE [buf |-> [isNil |-> FALSE,
                   b |-> Base64DecodeString(valueConvertToString(r).s).v],
          err |-> Nil]

(***************************************************************************)
(* executeHTTP: NumCalls concurrent calls, one per goroutine.              *)
(***************************************************************************)
Calls == 1..NumCalls

\* usbHTTPClient: NoOverride is the call without the variadic argument
NoOverride == "HTTPClient"
OverrideClients == {"usb1", "usb2"}

Statuses == {StatusOK, 500}

ErrorBody(code, message) ==
    Envelope(JObj(("error" :> JStr(code)) @@ ("message" :> JStr(message))
                  @@ ("traceback" :> JStr(<<>>))))

HTTPBodies ==
    { Malformed,
      Envelope(JNull),
      ErrorBody(<<"e">>, <<"{", "k", "=", "t", "}">>) }

NoResp == [status |-> 0, body |-> NilRaw]

HTTPInit ==
    /\ mutex = 0
    /\ debugFlag \in BOOLEAN
    /\ pc = [p \in Calls |-> "newRequest"]
    /\ client \in [Calls -> {NoOverride} \cup OverrideClients]
    /\ resp = [p \in Calls |-> NoResp]
    /\ rawResp = [p \in Calls |-> NilRaw]
    /\ err = [p \in Calls |-> Nil]
    /\ bodyState = [p \in Calls |-> "none"]
    /\ sent = [p \in Calls |-> 0]
    /\ closed = [p \in Calls |-> 0]
    /\ readCalled = [p \in Calls |-> FALSE]
    /\ checked = [p \in Calls |-> FALSE]
    /\ logged = [p \in Calls |-> 0]

\* debugLog: one line when debugFlag is set
debugLog(p) ==
    logged' = [logged EXCEPT ![p] = IF debugFlag THEN @ + 1 ELSE @]

\* AfterReturn without the deferred drain and close of the body
AfterReturn_NoDrain(p, hasResp) ==
    IF client[p] # NoOverride THEN "unlock" ELSE "done"

\* AfterReturn without the deferred Unlock
AfterReturn_NoUnlock(p, hasResp) ==
    IF hasResp THEN "drain" ELSE "done"

\* where a call goes once its function body has returned: the deferred
\* functions run last-registered first, the body drain before the Unlock
AfterReturn(p, hasResp) ==
    IF hasResp THEN "drain"
    ELSE IF client[p] # NoOverride THEN "unlock"
    ELSE "done"

\* NewRequest that takes the mutex whatever the client
NewRequest_AlwaysLock(p) ==
    /\ pc[p] = "newRequest"
    /\ debugLog(p)
    /\ \E ok \in BOOLEAN :
         IF ok
         THEN /\ pc' = [pc EXCEPT ![p] = "lock"]
              /\ err' = err
         ELSE /\ pc' = [pc EXCEPT ![p] = "done"]
              /\ err' = [err EXCEPT ![p] = ErrNewRequest]
    /\ UNCHANGED <<mutex, debugFlag, client, resp, rawResp, bodyState,
                   sent, closed, readCalled, checked>>

\* lines 50-61: debugLog, newRequest, client selection
NewRequest(p) ==
    /\ pc[p] = "newRequest"
    /\ debugLog(p)
    /\ \E ok \in BOOLEAN :
         IF ok
         THEN /\ pc' = [pc EXCEPT ![p] = IF client[p] # NoOverride
                                         THEN "lock" ELSE "do"]
              /\ err' = err
         ELSE /\ pc' = [pc EXCEPT ![p] = "done"]
              /\ err' = [err EXCEPT ![p] = ErrNewRequest]
    /\ UNCHANGED <<mutex, debugFlag, client, resp, rawResp, bodyState,
                   sent, closed, readCalled, checked>>

\* Lock that does not wait for the mutex
Lock_NoWait(p) ==
    /\ pc[p] = "lock"
    /\ mutex' = p
    /\ pc' = [pc EXCEPT ![p] = "do"]
    /\ UNCHANGED <<debugFlag, client, resp, rawResp, err, bodyState,
                   sent, closed, readCalled, checked, logged>>

\* line 59: _mUSB.Lock()
Lock(p) ==
    /\ pc[p] = "lock"
    /\ mutex = 0
    /\ mutex' = p
    /\ pc' = [pc EXCEPT ![p] = "do"]
    /\ UNCHANGED <<debugFlag, client, resp, rawResp, err, bodyState,
                   sent, closed, readCalled, checked, logged>>

\* Do that transmits again after a transport failure
Do_Retry(p) ==
    /\ pc[p] = "do"
    /\ sent' = [sent EXCEPT ![p] = @ + 1]
    /\ \/ /\ err' = [err EXCEPT ![p] = ErrTransport]
          /\ UNCHANGED <<rawResp, pc, resp, bodyState>>
       \/ \E st \in Statuses :
            /\ resp' = [resp EXCEPT ![p] = [status |-> st, body |-> NilRaw]]
            /\ bodyState' = [bodyState EXCEPT ![p] = "open"]
            /\ pc' = [pc EXCEPT ![p] = "read"]
            /\ UNCHANGED <<err, rawResp>>
    /\ UNCHANGED <<mutex, debugFlag, client, closed, readCalled, checked,
                   logged>>

\* line 65: tmpHTTPClient.Do(req)
Do(p) ==
    /\ pc[p] = "do"
    /\ sent' = [sent EXCEPT ![p] = @ + 1]
    /\ \/ /\ err' = [err EXCEPT ![p] = ErrTransport]
          /\ rawResp' = [rawResp EXCEPT ![p] = NilRaw]
          /\ pc' = [pc EXCEPT ![p] = AfterReturn(p, FALSE)]
          /\ UNCHANGED <<resp, bodyState>>
       \/ \E st \in Statuses :
            /\ resp' = [resp EXCEPT ![p] = [status |-> st, body |-> NilRaw]]
            /\ bodyState' = [bodyState EXCEPT ![p] = "open"]
            /\ pc' = [pc EXCEPT ![p] = "read"]
            /\ UNCHANGED <<err, rawResp>>
    /\ UNCHANGED <<mutex, debugFlag, client, closed, readCalled, checked,
                   logged>>

\* ReadAll whose failure is not returned
ReadAll_DropError(p) ==
    /\ pc[p] = "read"
    /\ readCalled' = [readCalled EXCEPT ![p] = TRUE]
    /\ debugLog(p)
    /\ \/ \E b \in HTTPBodies :
            /\ resp' = [resp EXCEPT ![p].body = b]
            /\ rawResp' = [rawResp EXCEPT ![p] = b]
            /\ err' = [err EXCEPT ![p] = Nil]
            /\ pc' = [pc EXCEPT ![p] = "check"]
       \/ /\ rawResp' = [rawResp EXCEPT ![p] = NilRaw]
          /\ err' = [err EXCEPT ![p] = Nil]
          /\ pc' = [pc EXCEPT ![p] = AfterReturn(p, TRUE)]
          /\ resp' = resp
    /\ UNCHANGED <<mutex, debugFlag, client, bodyState, sent, closed,
                   checked>>

\* lines 74-78: ioutil.ReadAll(resp.Body), debugLog; the body arrives while
\* it is read, resp[p].body records the bytes the server sent
ReadAll(p) ==
    /\ pc[p] = "read"
    /\ readCalled' = [readCalled EXCEPT ![p] = TRUE]
    /\ debugLog(p)
    /\ \/ \E b \in HTTPBodies :
            /\ resp' = [resp EXCEPT ![p].body = b]
            /\ rawResp' = [rawResp EXCEPT ![p] = b]
            /\ err' = [err EXCEPT ![p] = Nil]
            /\ pc' = [pc EXCEPT ![p] = "check"]
       \/ /\ rawResp' = [rawResp EXCEPT ![p] = NilRaw]
          /\ err' = [err EXCEPT ![p] = ErrRead]
          /\ pc' = [pc EXCEPT ![p] = AfterReturn(p, TRUE)]
          /\ resp' = resp
    /\ UNCHANGED <<mutex, debugFlag, client, bodyState, sent, closed,
                   checked>>

\* Classify that surfaces the error whatever the status
Classify_Strict(r, status) ==
    IF checkErr(r) # Nil
    THEN [rawResp |-> NilRaw, err |-> checkErr(r)]
    ELSE [rawResp |-> r, err |-> Nil]

\* Classify that never surfaces the error
Classify_Permissive(r, status) ==
    [rawResp |-> r, err |-> Nil]

\* the values executeHTTP returns after rawResp.checkErr(), lines 80-87
Classify(r, status) ==
    IF checkErr(r) # Nil
    THEN IF status = StatusOK
         THEN [rawResp |-> r, err |-> Nil]
         ELSE [rawResp |-> NilRaw, err |-> checkErr(r)]
    ELSE [rawResp |-> r, err |-> Nil]

\* Classify of every body and status the server can send
Returned == [b \in HTTPBodies, st \in Statuses |-> Classify(b, st)]

CheckErr(p) ==
    /\ pc[p] = "check"
    /\ checked' = [checked EXCEPT ![p] = TRUE]
    /\ rawResp' = [rawResp EXCEPT ![p] = Returned[rawResp[p], resp[p].status].rawResp]
    /\ err' = [err EXCEPT ![p] = Returned[rawResp[p], resp[p].status].err]
    /\ pc' = [pc EXCEPT ![p] = AfterReturn(p, TRUE)]
    /\ UNCHANGED <<mutex, debugFlag, client, resp, bodyState, sent, closed,
                   readCalled, logged>>

\* lines 68-72: the deferred io.Copy(ioutil.Discard, resp.Body); resp.Body.Close()
Drain(p) ==
    /\ pc[p] = "drain"
    /\ bodyState' = [bodyState EXCEPT ![p] = "closed"]
    /\ closed' = [closed EXCEPT ![p] = @ + 1]
    /\ pc' = [pc EXCEPT ![p] = AfterReturn(p, FALSE)]
    /\ UNCHANGED <<mutex, debugFlag, client, resp, rawResp, err, sent,
                   readCalled, checked, logged>>

\* Unlock that leaves the mutex held
Unlock_Leak(p) ==
    /\ pc[p] = "unlock"
    /\ pc' = [pc EXCEPT ![p] = "done"]
    /\ UNCHANGED <<mutex, debugFlag, client, resp, rawResp, err, bodyState,
                   sent, closed, readCalled, checked, logged>>

\* line 60: the deferred _mUSB.Unlock()
Unlock(p) ==
    /\ pc[p] = "unlock"
    /\ mutex' = 0
    /\ pc' = [pc EXCEPT ![p] = "done"]
    /\ UNCHANGED <<debugFlag, client, resp, rawResp, err, bodyState, sent,
                   closed, readCalled, checked, logged>>

(***************************************************************************)
(* The variables of the components a specification does not exercise.      *)
(***************************************************************************)
HTTPIdle ==
    /\ mutex = 0 /\ debugFlag = FALSE
    /\ pc = <<>> /\ client = <<>> /\ resp = <<>> /\ rawResp = <<>>
    /\ err = <<>> /\ bodyState = <<>> /\ sent = <<>> /\ closed = <<>>
    /\ readCalled = <<>> /\ checked = <<>> /\ logged = <<>>
DecodeIdle == raw = NilRaw /\ op = "none" /\ out = <<>>
ResolveIdle == val = <<>> /\ resolved = FALSE /\ id = <<>>
SelIdle == sel = <<>> /\ encoded = <<>>
TypeIdle == flags = {} /\ typeName = ""
KeepIdle ==
    /\ DefaultKeepAliveInterval = 0 /\ poller = "none" /\ ticker = "none"
    /\ tickerC = 0 /\ ticks = 0 /\ received = 0 /\ checks = 0 /\ failures = 0
OptIdle == opt = <<>> /\ method = "none" /\ calls = 0

Init == HTTPInit /\ DecodeIdle /\ ResolveIdle /\ SelIdle /\ TypeIdle
    /\ KeepIdle /\ OptIdle

Next ==
    \E p \in Calls :
        /\ \/ NewRequest(p)
           \/ Lock(p)
           \/ Do(p)
           \/ ReadAll(p)
           \/ CheckErr(p)
           \/ Drain(p)
           \/ Unlock(p)
        /\ UNCHANGED <<decodeVars, resolveVars, selVars, typeVars,
                 keepVars, optVars>>

Spec == Init /\ [][Next]_vars

\* the steps of call p other than waiting at _mUSB.Lock()
Returns(p) ==
    /\ \/ NewRequest(p)
       \/ Do(p)
       \/ ReadAll(p)
       \/ CheckErr(p)
       \/ Drain(p)
       \/ Unlock(p)
    /\ UNCHANGED <<decodeVars, resolveVars, selVars, typeVars,
                 keepVars, optVars>>

\* _mUSB.Lock() of call p returning
Granted(p) ==
    Lock(p) /\ UNCHANGED <<decodeVars, resolveVars, selVars, typeVars,
                 keepVars, optVars>>

\* the calls are interchangeable: the clients are listed in one order only
ClientRank(c) == IF c = NoOverride THEN 0 ELSE IF c = "usb1" THEN 1 ELSE 2

InitFair ==
    /\ Init
    /\ debugFlag = FALSE
    /\ \A p \in Calls, q \in Calls : p < q => ClientRank(client[p]) <= ClientRank(client[q])
    /\ (\E p \in Calls : client[p] = "usb2") => (\E p \in Calls : client[p] = "usb1")

\* every step of a started call returns (newRequest, client.Do, the body
\* read, checkErr, the deferred functions), and sync.Mutex hands the lock
\* to a goroutine that finds it free again and again (starvation mode)
SpecFair ==
    /\ InitFair
    /\ [][Next]_vars
    /\ \A p \in Calls : WF_vars(Returns(p)) /\ SF_vars(Granted(p))

(***************************************************************************)
(* elementIDFromValue applied to string-keyed maps.                        *)
(***************************************************************************)
ElemKeys == {webElementIdentifier, legacyWebElementIdentifier, "sessionId"}
ElemIDs == {<<>>, <<"a">>, <<"b">>}
StringMaps == UNION {[D -> ElemIDs] : D \in SUBSET ElemKeys}

ResolveInit == val \in StringMaps /\ resolved = FALSE /\ id = <<>>

Resolve ==
    /\ ~resolved
    /\ resolved' = TRUE
    /\ id' = elementIDFromValue(val)
    /\ val' = val

InitResolve == ResolveInit /\ HTTPIdle /\ DecodeIdle /\ SelIdle /\ TypeIdle
    /\ KeepIdle /\ OptIdle
NextResolve == Resolve /\ UNCHANGED <<httpVars, decodeVars, selVars, typeVars,
                 keepVars, optVars>>
SpecResolve == InitResolve /\ [][NextResolve]_vars

(***************************************************************************)
(* The element decoders applied to raw responses.                          *)
(***************************************************************************)
RECURSIVE SeqsUpTo(_, _)
SeqsUpTo(S, n) ==
    IF n = 0 THEN {<<>>}
    ELSE SeqsUpTo(S, n - 1) \cup
         {Append(l, x) : l \in {t \in SeqsUpTo(S, n - 1) : Len(t) = n - 1}, x \in S}

\* {"value": {...}} bodies: string maps, and maps with a null or a number
MapDocs ==
    {JMap(m) : m \in StringMaps}
    \cup {JObj(webElementIdentifier :> JNull), JObj(webElementIdentifier :> JNum)}

\* the entries of {"value": [...]} bodies
EntryMaps ==
    UNION {[D -> ElemIDs] :
             D \in SUBSET {webElementIdentifier, legacyWebElementIdentifier}}
ListEntries == {JMap(m) : m \in EntryMaps} \cup {JNull}
ListDocs == {JArr(l) : l \in SeqsUpTo(ListEntries, MaxLen)}

ScalarDocs == {JNull, JNum, JBool(TRUE), JStr(<<"a">>)}

\* value.message texts: up to n pieces, among them whole {key=text} spans,
\* the two halves of a span, a line break and plain text
MsgPieces ==
    { <<"x">>, <<"\n">>, <<"=">>,
      <<"{", "k", "=">>, <<"t", "}">>,
      <<"{", "k", "=", "t", "}">>, <<"{", "j", "=", "u", "}">> }

RECURSIVE MessagesUpTo(_)
MessagesUpTo(n) ==
    IF n = 0 THEN {<<>>}
    ELSE MessagesUpTo(n - 1) \cup
         {m \o piece : m \in MessagesUpTo(n - 1), piece \in MsgPieces}

\* {"value": {"error": ..., "message": ..., "traceback": ...}} bodies, and
\* bodies whose error or message is not a string
ErrorRaws ==
    {ErrorBody(code, m) : code \in {<<>>, <<"e">>}, m \in MessagesUpTo(MaxPieces)}
    \cup {Envelope(JObj(("error" :> JStr(<<"e">>)) @@ ("message" :> JNum))),
          Envelope(JObj("error" :> JNum)),
          Envelope(JObj("error" :> JNull)),
          Envelope(JArr(<<JStr(<<"e">>)>>))}

\* {"value": {"sessionId": ..., "capabilities": {...}}} bodies
SessionDocs ==
    { JObj(("sessionId" :> JStr(<<"a">>))
           @@ ("capabilities" :> JObj("device" :> JStr(<<"d">>)))),
      JObj(("sessionId" :> JStr(<<"a">>)) @@ ("capabilities" :> JStr(<<"d">>))),
      JObj("sessionId" :> JNum) }

\* base64 payloads: the encodings of byte sequences, a line-wrapped and a
\* non-canonical encoding, and corrupt strings
SampleBytes == {0, 77, 255}
ByteSeqs == SeqsUpTo(SampleBytes, MaxBytes)
CorruptBase64 ==
    { <<"T">>, <<"T", "Q", "=">>, <<"T", "Q", "=", "=", "=">>,
      <<"*", "Q", "=", "=">>, <<"T", "=", "=", "=">>,
      <<"T", "Q", "=", "=", "T", "Q", "=", "=">>,
      <<"T", "Q", "=", "A">> }
Base64Strings ==
    {Base64EncodeToString(b) : b \in ByteSeqs}
    \cup {<<"T", "Q", "\n", "=", "=">>, <<"T", "R", "=", "=">>}
    \cup CorruptBase64

DecodeRaws ==
    {Malformed, JNull, JNum, JStr(<<"a">>), JArr(<<>>), JObj(<<>>),
     JObj("sessionId" :> JStr(<<"a">>))}
    \cup {Envelope(v) : v \in MapDocs \cup ListDocs \cup ScalarDocs}
    \cup ErrorRaws
    \cup {Envelope(v) : v \in SessionDocs}
    \cup {Envelope(JStr(str)) : str \in Base64Strings}

DecodeInit == raw \in DecodeRaws /\ op = "none" /\ out = <<>>

ValueConvertToElementID ==
    /\ op = "none"
    /\ op' = "valueConvertToElementID"
    /\ out' = valueConvertToElementID(raw)
    /\ raw' = raw

ValueConvertToElementIDs ==
    /\ op = "none"
    /\ op' = "valueConvertToElementIDs"
    /\ out' = valueConvertToElementIDs(raw)
    /\ raw' = raw

\* one call of raw.checkErr()
RawCheckErr ==
    /\ op = "none"
    /\ op' = "checkErr"
    /\ out' = [err |-> checkErr(raw)]
    /\ raw' = raw

ValueConvertToString ==
    /\ op = "none"
    /\ op' = "valueConvertToString"
    /\ out' = valueConvertToString(raw)
    /\ raw' = raw

ValueConvertToBool ==
    /\ op = "none"
    /\ op' = "valueConvertToBool"
    /\ out' = valueConvertToBool(raw)
    /\ raw' = raw

ValueConvertToSessionInfo ==
    /\ op = "none"
    /\ op' = "valueConvertToSessionInfo"
    /\ out' = valueConvertToSessionInfo(raw)
    /\ raw' = raw

ValueConvertToJsonRawMessage ==
    /\ op = "none"
    /\ op' = "valueConvertToJsonRawMessage"
    /\ out' = valueConvertToJsonRawMessage(raw)
    /\ raw' = raw

ValueDecodeAsBase64 ==
    /\ op = "none"
    /\ op' = "valueDecodeAsBase64"
    /\ out' = valueDecodeAsBase64(raw)
    /\ raw' = raw

InitDecode == DecodeInit /\ HTTPIdle /\ ResolveIdle /\ SelIdle /\ TypeIdle
    /\ KeepIdle /\ OptIdle
NextDecode ==
    /\ \/ ValueConvertToElementID
       \/ ValueConvertToElementIDs
       \/ RawCheckErr
       \/ ValueConvertToString
       \/ ValueConvertToBool
       \/ ValueConvertToSessionInfo
       \/ ValueConvertToJsonRawMessage
       \/ ValueDecodeAsBase64
    /\ UNCHANGED <<httpVars, resolveVars, selVars, typeVars,
                 keepVars, optVars>>
SpecDecode == InitDecode /\ [][NextDecode]_vars

(***************************************************************************)
(* ElementType: the set of the indices, in declaration order, of the flags *)
(* that are true.                                                          *)
(***************************************************************************)
ElementTypeTags == <<
    "XCUIElementTypeAny", "XCUIElementTypeOther", "XCUIElementTypeApplication",
    "XCUIElementTypeGroup", "XCUIElementTypeWindow", "XCUIElementTypeSheet",
    "XCUIElementTypeDrawer", "XCUIElementTypeAlert", "XCUIElementTypeDialog",
    "XCUIElementTypeButton", "XCUIElementTypeRadioButton", "XCUIElementTypeRadioGroup",
    "XCUIElementTypeCheckBox", "XCUIElementTypeDisclosureTriangle", "XCUIElementTypePopUpButton",
    "XCUIElementTypeComboBox", "XCUIElementTypeMenuButton", "XCUIElementTypeToolbarButton",
    "XCUIElementTypePopover", "XCUIElementTypeKeyboard", "XCUIElementTypeKey",
    "XCUIElementTypeNavigationBar", "XCUIElementTypeTabBar", "XCUIElementTypeTabGroup",
    "XCUIElementTypeToolbar", "XCUIElementTypeStatusBar", "XCUIElementTypeTable",
    "XCUIElementTypeTableRow", "XCUIElementTypeTableColumn", "XCUIElementTypeOutline",
    "XCUIElementTypeOutlineRow", "XCUIElementTypeBrowser", "XCUIElementTypeCollectionView",
    "XCUIElementTypeSlider", "XCUIElementTypePageIndicator", "XCUIElementTypeProgressIndicator",
    "XCUIElementTypeActivityIndicator", "XCUIElementTypeSegmentedControl", "XCUIElementTypePicker",
    "XCUIElementTypePickerWheel", "XCUIElementTypeSwitch", "XCUIElementTypeToggle",
    "XCUIElementTypeLink", "XCUIElementTypeImage", "XCUIElementTypeIcon",
    "XCUIElementTypeSearchField", "XCUIElementTypeScrollView", "XCUIElementTypeScrollBar",
    "XCUIElementTypeStaticText", "XCUIElementTypeTextField", "XCUIElementTypeSecureTextField",
    "XCUIElementTypeDatePicker", "XCUIElementTypeTextView", "XCUIElementTypeMenu",
    "XCUIElementTypeMenuItem", "XCUIElementTypeMenuBar", "XCUIElementTypeMenuBarItem",
    "XCUIElementTypeMap", "XCUIElementTypeWebView", "XCUIElementTypeIncrementArrow",
    "XCUIElementTypeDecrementArrow", "XCUIElementTypeTimeline", "XCUIElementTypeRatingIndicator",
    "XCUIElementTypeValueIndicator", "XCUIElementTypeSplitGroup", "XCUIElementTypeSplitter",
    "XCUIElementTypeRelevanceIndicator", "XCUIElementTypeColorWell", "XCUIElementTypeHelpTag",
    "XCUIElementTypeMatte", "XCUIElementTypeDockItem", "XCUIElementTypeRuler",
    "XCUIElementTypeRulerMarker", "XCUIElementTypeGrid", "XCUIElementTypeLevelIndicator",
    "XCUIElementTypeCell", "XCUIElementTypeLayoutArea", "XCUIElementTypeLayoutItem",
    "XCUIElementTypeHandle", "XCUIElementTypeStepper", "XCUIElementTypeTab",
    "XCUIElementTypeTouchBar", "XCUIElementTypeStatusItem" >>

Min(S) == CHOOSE n \in S : \A n2 \in S : n <= n2

\* ElementType.String that returns the name of the last flag that is true
ElementTypeString_LastFlag(et) ==
    IF \E i \in 1..Len(ElementTypeTags) : i \in et
    THEN ElementTypeTags[CHOOSE i \in et : \A j \in et : j <= i]
    ELSE "UNKNOWN"

\* ElementType.String
ElementTypeString(et) ==
    IF \E i \in 1..Len(ElementTypeTags) : i \in et
    THEN ElementTypeTags[Min({i \in 1..Len(ElementTypeTags) : i \in et})]
    ELSE "UNKNOWN"

\* the flag sets with at most n flags true
RECURSIVE TypesUpTo(_)
TypesUpTo(n) ==
    IF n = 0 THEN {{}}
    ELSE TypesUpTo(n - 1) \cup
         {S \cup {i} : S \in TypesUpTo(n - 1), i \in 1..Len(ElementTypeTags)}

TypeInit == flags \in TypesUpTo(MaxTrueFlags) /\ typeName = ""

\* one call of et.String()
String ==
    /\ typeName = ""
    /\ typeName' = ElementTypeString(flags)
    /\ flags' = flags

InitElementType == TypeInit /\ HTTPIdle /\ DecodeIdle /\ ResolveIdle /\ SelIdle
    /\ KeepIdle /\ OptIdle
NextElementType ==
    String /\ UNCHANGED <<httpVars, decodeVars, resolveVars, selVars,
                 keepVars, optVars>>
SpecElementType == InitElementType /\ [][NextElementType]_vars

(***************************************************************************)
(* ElementAttribute: a map from attribute names to bool, string or other   *)
(* values.  `first` is the key the range statement yields first.           *)
(***************************************************************************)
AttrBool(b) == [t |-> "bool", b |-> b]
AttrString(str) == [t |-> "string", s |-> str]
AttrType(et) == [t |-> "ElementType", et |-> et]

FormatBool(b) == IF b THEN "true" ELSE "false"

\* ElementAttribute.String
ElementAttributeString(ea, first) ==
    IF DOMAIN ea = {} THEN "UNKNOWN"
    ELSE first \o "=" \o
         (CASE ea[first].t = "bool" -> FormatBool(ea[first].b)
            [] ea[first].t = "string" -> ea[first].s
            [] OTHER -> ElementTypeString(ea[first].et))

(***************************************************************************)
(* BySelector.getUsingAndValue                                             *)
(***************************************************************************)
\* BySelector with XPath declared before Id
BySelectorFields_XPathFirst == <<
    [name |-> "ClassName",       type |-> "ElementType",      tag |-> "class name"],
    [name |-> "Name",            type |-> "string",           tag |-> "name"],
    [name |-> "XPath",           type |-> "string",           tag |-> "xpath"],
    [name |-> "Id",              type |-> "string",           tag |-> "id"],
    [name |-> "AccessibilityId", type |-> "string",           tag |-> "accessibility id"],
    [name |-> "LinkText",        type |-> "ElementAttribute", tag |-> "link text"],
    [name |-> "PartialLinkText", type |-> "ElementAttribute", tag |-> "partial link text"],
    [name |-> "Predicate",       type |-> "string",           tag |-> "predicate string"],
    [name |-> "ClassChain",      type |-> "string",           tag |-> "class chain"] >>

\* the fields of BySelector in declaration order, with type and json tag
BySelectorFields == <<
    [name |-> "ClassName",       type |-> "ElementType",      tag |-> "class name"],
    [name |-> "Name",            type |-> "string",           tag |-> "name"],
    [name |-> "Id",              type |-> "string",           tag |-> "id"],
    [name |-> "AccessibilityId", type |-> "string",           tag |-> "accessibility id"],
    [name |-> "LinkText",        type |-> "ElementAttribute", tag |-> "link text"],
    [name |-> "PartialLinkText", type |-> "ElementAttribute", tag |-> "partial link text"],
    [name |-> "Predicate",       type |-> "string",           tag |-> "predicate string"],
    [name |-> "ClassChain",      type |-> "string",           tag |-> "class chain"],
    [name |-> "XPath",           type |-> "string",           tag |-> "xpath"] >>

\* the type switch of lines 655-662; first[name] is the key that the range
\* over the attribute map of field `name` yields first
FieldString(wl, f, first) ==
    CASE f.type = "ElementType" -> ElementTypeString(wl[f.name])
      [] f.type = "string" -> wl[f.name]
      [] f.type = "ElementAttribute" ->
             ElementAttributeString(wl[f.name], first[f.name])

\* the loop of lines 653-667 from field i on; v is the named result `value`
\* as the previous iteration left it
RECURSIVE ScanFields(_, _, _, _)
ScanFields(wl, i, v, first) ==
    IF i > Len(BySelectorFields) THEN [using |-> "", value |-> v]
    ELSE LET fv == FieldString(wl, BySelectorFields[i], first)
         IN IF fv # "" /\ fv # "UNKNOWN"
            THEN [using |-> BySelectorFields[i].tag, value |-> fv]
            ELSE ScanFields(wl, i + 1, fv, first)

getUsingAndValue(wl, first) == ScanFields(wl, 1, "", first)

SelStrings == {"", "UNKNOWN", "x"}
SelTypes == SUBSET {1, 10}
SelAttributes ==
    { <<>>,
      "label" :> AttrString("a"),
      "type" :> AttrType({10}),
      ("label" :> AttrString("a")) @@ ("visible" :> AttrBool(TRUE)) }

Selectors ==
    [ClassName : SelTypes, Name : SelStrings, Id : SelStrings,
     AccessibilityId : SelStrings, LinkText : SelAttributes,
     PartialLinkText : SelAttributes, Predicate : SelStrings,
     ClassChain : SelStrings, XPath : SelStrings]

\* the keys a range over the map may yield first ("" for an empty map)
FirstKeys(ea) == IF DOMAIN ea = {} THEN {""} ELSE DOMAIN ea

SelInit == sel \in Selectors /\ encoded = <<>>

\* one call of sel.getUsingAndValue(); encoded keeps the result of every call
GetUsingAndValue ==
    /\ Len(encoded) < MaxEncodes
    /\ \E lt \in FirstKeys(sel.LinkText), plt \in FirstKeys(sel.PartialLinkText) :
         LET first == [LinkText |-> lt, PartialLinkText |-> plt]
             res == getUsingAndValue(sel, first)
         IN encoded' = Append(encoded, [using |-> res.using, value |-> res.value,
                                        first |-> first])
    /\ sel' = sel

InitSelector == SelInit /\ HTTPIdle /\ DecodeIdle /\ ResolveIdle /\ TypeIdle
    /\ KeepIdle /\ OptIdle
NextSelector == GetUsingAndValue /\ UNCHANGED <<httpVars, decodeVars, resolveVars, typeVars,
                 keepVars, optVars>>
SpecSelector == InitSelector /\ [][NextSelector]_vars

(***************************************************************************)
(* keepAlive: the goroutine of lines 91-105 and its ticker.  tickerC is    *)
(* the number of ticks waiting in ticker.C, a channel of capacity one: a   *)
(* tick that finds the channel full is dropped.                            *)
(***************************************************************************)
\* time.Duration values of DefaultKeepAliveInterval, in seconds
Intervals == {-1, 0, 30}

KeepInit ==
    /\ DefaultKeepAliveInterval \in Intervals
    /\ poller = "start" /\ ticker = "none"
    /\ tickerC = 0 /\ ticks = 0 /\ received = 0 /\ checks = 0 /\ failures = 0

\* lines 92-95: the guard on the interval and time.NewTicker
StartPoller ==
    /\ poller = "start"
    /\ IF DefaultKeepAliveInterval <= 0
       THEN poller' = "returned" /\ ticker' = ticker
       ELSE poller' = "select" /\ ticker' = "running"
    /\ UNCHANGED <<DefaultKeepAliveInterval, tickerC, ticks, received, checks,
                   failures>>

\* the running ticker sends on ticker.C
Tick ==
    /\ ticker = "running"
    /\ ticks < MaxTicks
    /\ ticks' = ticks + 1
    /\ tickerC' = 1
    /\ UNCHANGED <<DefaultKeepAliveInterval, poller, ticker, received, checks,
                   failures>>

\* line 98: case <-ticker.C
Receive ==
    /\ poller = "select"
    /\ tickerC = 1
    /\ tickerC' = 0
    /\ received' = received + 1
    /\ poller' = "call"
    /\ UNCHANGED <<DefaultKeepAliveInterval, ticker, ticks, checks, failures>>

\* line 99: d.Status() is called
CallStatus ==
    /\ poller = "call"
    /\ checks' = checks + 1
    /\ poller' = "status"
    /\ UNCHANGED <<DefaultKeepAliveInterval, ticker, tickerC, ticks, received,
                   failures>>

\* StatusReturns that goes on polling after an error
StatusReturns_KeepPolling ==
    /\ poller = "status"
    /\ \E failed \in BOOLEAN :
         /\ failures' = IF failed THEN failures + 1 ELSE failures
         /\ poller' = "select"
         /\ ticker' = ticker
    /\ UNCHANGED <<DefaultKeepAliveInterval, tickerC, ticks, received, checks>>

\* lines 99-102: d.Status() returns; on an error ticker.Stop() and return
StatusReturns ==
    /\ poller = "status"
    /\ \E failed \in BOOLEAN :
         IF failed
         THEN /\ failures' = failures + 1
              /\ ticker' = "stopped"
              /\ poller' = "returned"
         ELSE /\ failures' = failures
              /\ ticker' = ticker
              /\ poller' = "select"
    /\ UNCHANGED <<DefaultKeepAliveInterval, tickerC, ticks, received, checks>>

InitKeepAlive ==
    /\ KeepInit /\ HTTPIdle /\ DecodeIdle /\ ResolveIdle /\ SelIdle /\ TypeIdle
    /\ OptIdle

\* the steps of the goroutine itself
PollerStep ==
    /\ \/ StartPoller
       \/ Receive
       \/ CallStatus
    /\ UNCHANGED <<httpVars, decodeVars, resolveVars, selVars, typeVars, optVars>>

NextKeepAlive ==
    \/ PollerStep
    \/ /\ \/ Tick
          \/ StatusReturns
       /\ UNCHANGED <<httpVars, decodeVars, resolveVars, selVars, typeVars, optVars>>

\* the goroutine is scheduled; nothing makes the ticker tick on or the
\* Status request return
SpecKeepAlive == InitKeepAlive /\ [][NextKeepAlive]_vars /\ WF_vars(PollerStep)

(***************************************************************************)
(* SourceOption: a map[string]interface{} and its builder methods.  opt is *)
(* the map, method the last method called on it.                           *)
(***************************************************************************)
\* strings.Join(a, sep)
RECURSIVE Join(_, _)
Join(a, sep) ==
    IF Len(a) = 0 THEN ""
    ELSE IF Len(a) = 1 THEN a[1]
    ELSE a[1] \o sep \o Join(Tail(a), sep)

AttributeLists == {<<>>, <<"x">>, <<"x", "y">>}

\* NewSourceOption
OptInit == opt = <<>> /\ method = "NewSourceOption" /\ calls = 0

\* opt[key] = value
SetKey(key, value) ==
    opt' = [k \in DOMAIN opt \cup {key} |-> IF k = key THEN value ELSE opt[k]]

WithFormatAsJson ==
    /\ calls < MaxOptCalls
    /\ SetKey("format", "json")
    /\ method' = "WithFormatAsJson"
    /\ calls' = calls + 1

WithFormatAsXml ==
    /\ calls < MaxOptCalls
    /\ SetKey("format", "xml")
    /\ method' = "WithFormatAsXml"
    /\ calls' = calls + 1

WithFormatAsDescription ==
    /\ calls < MaxOptCalls
    /\ SetKey("format", "description")
    /\ method' = "WithFormatAsDescription"
    /\ calls' = calls + 1

\* lines 600-606
WithExcludedAttributes ==
    /\ calls < MaxOptCalls
    /\ \E attributes \in AttributeLists :
         IF "format" \in DOMAIN opt /\ opt["format"] # "xml"
         THEN opt' = opt
         ELSE SetKey("excluded_attributes", Join(attributes, ","))
    /\ method' = "WithExcludedAttributes"
    /\ calls' = calls + 1

InitSourceOption ==
    /\ OptInit /\ HTTPIdle /\ DecodeIdle /\ ResolveIdle /\ SelIdle /\ TypeIdle
    /\ KeepIdle

NextSourceOption ==
    /\ \/ WithFormatAsJson
       \/ WithFormatAsXml
       \/ WithFormatAsDescription
       \/ WithExcludedAttributes
    /\ UNCHANGED <<httpVars, decodeVars, resolveVars, selVars, typeVars, keepVars>>

SpecSourceOption == InitSourceOption /\ [][NextSourceOption]_vars

(***************************************************************************)
(* Properties of executeHTTP (Spec).                                       *)
(***************************************************************************)
Override(p) == client[p] # NoOverride

\* from the transmission to the release of the mutex
InCycle(p) == pc[p] \in {"do", "read", "check", "drain", "unlock"}

\* the body is an envelope whose value.error is a non-empty string
ProtocolErrorBody(b) ==
    /\ b.k = "obj"
    /\ "value" \in DOMAIN b.o
    /\ b.o["value"].k = "obj"
    /\ "error" \in DOMAIN b.o["value"].o
    /\ b.o["value"].o["error"].k = "str"
    /\ b.o["value"].o["error"].s # <<>>

\* C1: two calls that both pass a client override never overlap: while one
\* is between its transmission and the release of the mutex, the other has
\* either not transmitted yet or has completed its whole cycle (body closed,
\* call returned)
C1_OverrideCallsSerialized ==
    \A p \in Calls, q \in Calls :
        (p # q /\ Override(p) /\ Override(q) /\ InCycle(q)) =>
            /\ pc[p] \in {"newRequest", "lock", "done"}
            /\ (pc[p] # "done" => sent[p] = 0)
            /\ bodyState[p] # "open"

C1_Witness ==
    \E p \in Calls, q \in Calls :
        /\ Override(p) /\ Override(q) /\ client[p] # client[q]
        /\ pc[p] = "drain" /\ checked[p]
        /\ pc[q] = "lock"

\* C2: a call that received status 200 and a body with a non-empty
\* value.error returns the body bytes unchanged and a nil error
C2_OKStatusReturnsRawBody ==
    \A p \in Calls :
        (pc[p] = "done" /\ resp[p].status = StatusOK
            /\ ProtocolErrorBody(resp[p].body)) =>
            /\ rawResp[p] = resp[p].body
            /\ err[p] = Nil

C2_Witness ==
    \E p \in Calls :
        /\ pc[p] = "done" /\ resp[p].status = StatusOK
        /\ ProtocolErrorBody(resp[p].body)
        /\ rawResp[p] = resp[p].body

\* C3: a call that received a status other than 200 and a body with a
\* non-empty value.error returns the error of checkErr and a nil rawResponse
C3_ErrorStatusReturnsError ==
    \A p \in Calls :
        (pc[p] = "done" /\ resp[p].status \in Statuses \ {StatusOK}
            /\ ProtocolErrorBody(resp[p].body)) =>
            /\ rawResp[p] = NilRaw
            /\ err[p] # Nil
            /\ err[p] = checkErr(resp[p].body)

C3_Witness ==
    \E p \in Calls :
        /\ pc[p] = "done" /\ resp[p].status = 500
        /\ ProtocolErrorBody(resp[p].body)
        /\ err[p] = Errorf(<<"e">>, <<"t">>)

\* client.Do was called and returned an error: no response, no body
DoFailed(p) == sent[p] > 0 /\ pc[p] # "do" /\ bodyState[p] = "none"

\* C4: when client.Do fails the call returns the transport error and a nil
\* rawResponse at once: the body is not read, checkErr is not run, and once
\* the call has returned it does not hold the mutex
C4_TransportFailureReturnsAtOnce ==
    \A p \in Calls :
        DoFailed(p) =>
            /\ err[p] = ErrTransport
            /\ rawResp[p] = NilRaw
            /\ ~readCalled[p] /\ ~checked[p]
            /\ pc[p] \in {"unlock", "done"}
            /\ (pc[p] = "unlock" => Override(p))
            /\ (pc[p] = "done" => mutex # p)

C4_Witness ==
    \E p \in Calls :
        /\ DoFailed(p) /\ Override(p) /\ pc[p] = "done" /\ mutex = 0
        /\ err[p] = ErrTransport

(***************************************************************************)
(* Properties of elementIDFromValue (SpecResolve).                         *)
(***************************************************************************)
HasID(m, key) == key \in DOMAIN m /\ m[key] # <<>>

\* C5: the value under the W3C key when it is present and non-empty, else
\* the value under the legacy key when it is present and non-empty, else the
\* empty string; no other key matters
C5_TwoKeyResolution ==
    resolved =>
        id = IF HasID(val, webElementIdentifier)
             THEN val[webElementIdentifier]
             ELSE IF HasID(val, legacyWebElementIdentifier)
                  THEN val[legacyWebElementIdentifier]
                  ELSE <<>>

C5_Witness ==
    /\ resolved
    /\ HasID(val, webElementIdentifier) /\ HasID(val, legacyWebElementIdentifier)
    /\ val[webElementIdentifier] # val[legacyWebElementIdentifier]
    /\ "sessionId" \in DOMAIN val
    /\ id = val[webElementIdentifier]

(***************************************************************************)
(* Properties of the element decoders (SpecDecode).                        *)
(***************************************************************************)
\* r is {"value": {...}} with string values only
IsStringMapDoc(x) ==
    x.k = "obj" /\ \A key \in DOMAIN x.o : x.o[key].k = "str"
IsMapEnvelope(r) ==
    r.k = "obj" /\ DOMAIN r.o = {"value"} /\ IsStringMapDoc(r.o["value"])
WireMap(x) == [key \in DOMAIN x.o |-> x.o[key].s]

\* C6: on {"value": <string map>} valueConvertToElementID returns
\* errNoSuchElement for the empty map and only for it, the invalid-element
\* error for a non-empty map that resolves to "", and otherwise the handle
\* of elementIDFromValue with a nil error
C6_ElementIDThreeOutcomes ==
    (op = "valueConvertToElementID" /\ IsMapEnvelope(raw)) =>
        LET m == WireMap(raw.o["value"])
        IN /\ (DOMAIN m = {}) => out = [id |-> <<>>, err |-> errNoSuchElement]
           /\ (DOMAIN m # {} /\ elementIDFromValue(m) = <<>>) =>
                  out = [id |-> <<>>, err |-> ErrInvalidElement]
           /\ (elementIDFromValue(m) # <<>>) =>
                  out = [id |-> elementIDFromValue(m), err |-> Nil]
           /\ (out.err = errNoSuchElement) => (DOMAIN m = {})

C6_Witness ==
    /\ op = "valueConvertToElementID" /\ IsMapEnvelope(raw)
    /\ DOMAIN raw.o["value"].o = {legacyWebElementIdentifier, "sessionId"}
    /\ raw.o["value"].o[legacyWebElementIdentifier].s = <<>>
    /\ out.err = ErrInvalidElement

\* C7: on {"value": []} valueConvertToElementIDs returns errNoSuchElement
\* and no list; every list it returns with a nil error is non-empty
C7_EmptyListIsAbsent ==
    (op = "valueConvertToElementIDs") =>
        /\ (raw = Envelope(JArr(<<>>))) =>
               out = [IDs |-> NilList, err |-> errNoSuchElement]
        /\ (out.err = Nil) => (~out.IDs.isNil /\ Len(out.IDs.l) > 0)

C7_Witness ==
    /\ op = "valueConvertToElementIDs"
    /\ raw = Envelope(JArr(<<>>))
    /\ out.err = errNoSuchElement

\* r is {"value": [...]} with at least one entry, each a string map or null
IsListEnvelope(r) ==
    /\ r.k = "obj" /\ DOMAIN r.o = {"value"} /\ r.o["value"].k = "arr"
    /\ Len(r.o["value"].a) > 0
    /\ \A i \in 1..Len(r.o["value"].a) :
          r.o["value"].a[i].k = "null" \/ IsStringMapDoc(r.o["value"].a[i])
WireEntry(x) == IF x.k = "null" THEN <<>> ELSE WireMap(x)

\* C8: on a non-empty wire list, either every entry resolves and the result
\* is the list of the entries' handles in wire order, or some entry does not
\* resolve and the result is the invalid-element error with a nil list
C8_ListAllOrNothing ==
    (op = "valueConvertToElementIDs" /\ IsListEnvelope(raw)) =>
        LET l == raw.o["value"].a
        IN IF \A i \in 1..Len(l) : elementIDFromValue(WireEntry(l[i])) # <<>>
           THEN /\ out.err = Nil
                /\ ~out.IDs.isNil
                /\ Len(out.IDs.l) = Len(l)
                /\ \A i \in 1..Len(l) :
                      out.IDs.l[i] = elementIDFromValue(WireEntry(l[i]))
           ELSE out = [IDs |-> NilList, err |-> ErrInvalidElement]

C8_Witness ==
    /\ op = "valueConvertToElementIDs" /\ IsListEnvelope(raw)
    /\ out.err = Nil
    /\ Len(out.IDs.l) = 2
    /\ out.IDs.l[1] # out.IDs.l[2]

(***************************************************************************)
(* Properties of getUsingAndValue (SpecSelector).                          *)
(***************************************************************************)
\* the strategies in the order of the wire protocol's description
StrategyOrder == <<"class name", "name", "id", "accessibility id", "link text",
                   "partial link text", "predicate string", "class chain",
                   "xpath">>

\* the rendered value of each strategy of sel in the call that produced e
Rendered(e) ==
    [u \in {StrategyOrder[i] : i \in 1..Len(StrategyOrder)} |->
        CASE u = "class name" -> ElementTypeString(sel.ClassName)
          [] u = "name" -> sel.Name
          [] u = "id" -> sel.Id
          [] u = "accessibility id" -> sel.AccessibilityId
          [] u = "link text" ->
                 ElementAttributeString(sel.LinkText, e.first.LinkText)
          [] u = "partial link text" ->
                 ElementAttributeString(sel.PartialLinkText, e.first.PartialLinkText)
          [] u = "predicate string" -> sel.Predicate
          [] u = "class chain" -> sel.ClassChain
          [] u = "xpath" -> sel.XPath]

Active(e) ==
    {i \in 1..Len(StrategyOrder) :
        Rendered(e)[StrategyOrder[i]] \notin {"", "UNKNOWN"}}

\* C9: the result is the wire name and the rendered value of the first
\* strategy, in the fixed order, whose rendered value is neither "" nor
\* "UNKNOWN", whatever the later fields hold
C9_FirstMatchWins ==
    \A n \in 1..Len(encoded) :
        LET rendered == Rendered(encoded[n])
            active == {i \in 1..Len(StrategyOrder) :
                         rendered[StrategyOrder[i]] \notin {"", "UNKNOWN"}}
        IN active # {} =>
             /\ encoded[n].using = StrategyOrder[Min(active)]
             /\ encoded[n].value = rendered[StrategyOrder[Min(active)]]

C9_Witness ==
    /\ Len(encoded) > 0
    /\ sel.ClassName = {} /\ sel.Name = "UNKNOWN"
    /\ sel.Id = "x" /\ sel.XPath = "x"
    /\ encoded[1].using = "id" /\ encoded[1].value = "x"

\* C10: when no strategy is active, using and value are both ""
C10_NoActiveFieldEmptyResult ==
    \A n \in 1..Len(encoded) :
        Active(encoded[n]) = {} =>
            encoded[n].using = "" /\ encoded[n].value = ""

(***************************************************************************)
(* Properties of ElementType.String (SpecElementType).                     *)
(***************************************************************************)
\* C11: the result is the json tag of the first flag, in declaration order,
\* that is true, also when several are; "XCUIElementTypeButton" when that
\* flag is Button; "UNKNOWN" when no flag is true
C11_FirstTrueFlagName ==
    typeName # "" =>
        /\ (flags = {}) => typeName = "UNKNOWN"
        /\ \A i \in flags :
              (\A j \in flags : i <= j) => typeName = ElementTypeTags[i]
        /\ (10 \in flags /\ \A j \in flags : j >= 10) =>
              typeName = "XCUIElementTypeButton"

C11_Witness ==
    /\ Cardinality(flags) = 2 /\ 10 \in flags
    /\ typeName = "XCUIElementTypeButton"

(***************************************************************************)
(* Properties of checkErr (SpecDecode).                                    *)
(***************************************************************************)
\* r is {"value": {"error": <string>, "message": <string>, ...}}
IsErrorEnvelope(r) ==
    /\ r.k = "obj" /\ "value" \in DOMAIN r.o
    /\ r.o["value"].k = "obj"
    /\ {"error", "message"} \subseteq DOMAIN r.o["value"].o
    /\ \A name \in DOMAIN r.o["value"].o : r.o["value"].o[name].k = "str"
WireError(r) == r.o["value"].o["error"].s
WireMessage(r) == r.o["value"].o["message"].s

Positions(s, c) == {n \in 1..Len(s) : s[n] = c}

\* s is other text followed by one span {key=text}: one '{', one '}' that
\* ends s, and between them one '=' with a key before and a text after it
OneSpan(s) ==
    /\ Cardinality(Positions(s, "{")) = 1
    /\ Positions(s, "}") = {Len(s)}
    /\ \E i \in Positions(s, "{") :
          /\ Cardinality({k \in Positions(s, "=") : k > i}) = 1
          /\ \A k \in Positions(s, "=") : k > i => (k > i + 1 /\ k < Len(s) - 1)
SpanText(s) ==
    LET i == CHOOSE n \in Positions(s, "{") : TRUE
        k == CHOOSE n \in Positions(s, "=") : n > i
    IN SubSeq(s, k + 1, Len(s) - 1)

\* C12: with a non-empty value.error and a value.message that holds exactly
\* one span {key=text}, the error is "<value.error>: <text>"
C12_SpanTextIsMessage ==
    (op = "checkErr" /\ IsErrorEnvelope(raw) /\ WireError(raw) # <<>>
        /\ OneSpan(WireMessage(raw))) =>
        out.err = Errorf(WireError(raw), SpanText(WireMessage(raw)))

\* the captured groups of the successive non-overlapping matches of the
\* pattern in s from position `from` on, leftmost first
RECURSIVE GroupsFrom(_, _)
GroupsFrom(s, from) ==
    IF \A n \in from..Len(s) : MatchesAt(s, n) = {} THEN <<>>
    ELSE LET i == CHOOSE n \in from..Len(s) :
                    /\ MatchesAt(s, n) # {}
                    /\ \A n2 \in from..(n-1) : MatchesAt(s, n2) = {}
             km == CHOOSE c \in MatchesAt(s, i) :
                    \A d \in MatchesAt(s, i) :
                        c[1] < d[1] \/ (c[1] = d[1] /\ c[2] <= d[2])
         IN <<SubSeq(s, km[1] + 1, km[2] - 1)>> \o GroupsFrom(s, km[2] + 1)

SeveralSpans(r) ==
    /\ IsErrorEnvelope(r) /\ WireError(r) # <<>>
    /\ Len(GroupsFrom(WireMessage(r), 1)) > 1

\* C13 as claimed: with several matching spans the message is the captured
\* group of the last match
C13_LastMatchGroup ==
    (op = "checkErr" /\ SeveralSpans(raw)) =>
        LET groups == GroupsFrom(WireMessage(raw), 1)
        IN out.err = Errorf(WireError(raw), groups[Len(groups)])

\* C13 amended: with several matching spans the message is the captured
\* group of the first (leftmost) match
C13_FirstMatchGroup ==
    (op = "checkErr" /\ SeveralSpans(raw)) =>
        out.err = Errorf(WireError(raw), GroupsFrom(WireMessage(raw), 1)[1])

C13_Witness ==
    /\ op = "checkErr" /\ SeveralSpans(raw)
    /\ GroupsFrom(WireMessage(raw), 1) = << <<"t">>, <<"u">> >>
    /\ out.err = Errorf(<<"e">>, <<"t">>)

\* value.error is a non-empty string
HasProtocolError(r) ==
    /\ r.k = "obj" /\ "value" \in DOMAIN r.o
    /\ r.o["value"].k = "obj"
    /\ "error" \in DOMAIN r.o["value"].o
    /\ r.o["value"].o["error"].k = "str"
    /\ r.o["value"].o["error"].s # <<>>

\* C14 as claimed: the error is non-nil only when value.error is a non-empty
\* string
C14_ErrorOnlyForProtocolError ==
    (op = "checkErr" /\ out.err # Nil) => HasProtocolError(raw)

\* the body decodes into the reply struct of checkErr: JSON null, or an
\* object whose value is absent, null, or an object whose error, message
\* and traceback are each absent, null or a string
FitsErrorStruct(r) ==
    \/ r.k = "null"
    \/ /\ r.k = "obj"
       /\ \/ "value" \notin DOMAIN r.o
          \/ r.o["value"].k = "null"
          \/ /\ r.o["value"].k = "obj"
             /\ \A name \in DOMAIN r.o["value"].o \cap {"error", "message", "traceback"} :
                   r.o["value"].o[name].k \in {"str", "null"}

\* C14 amended: the error is non-nil exactly when value.error is a non-empty
\* string or the body does not decode into the reply struct (not JSON, not
\* an object, or a value that is a string, boolean, number or array); it is
\* nil for a null value, an object without error and an object with an
\* empty error
C14_ErrorForProtocolOrDecodeError ==
    (op = "checkErr") =>
        /\ (out.err # Nil) <=> (HasProtocolError(raw) \/ ~FitsErrorStruct(raw))
        /\ (~FitsErrorStruct(raw)) => out.err \in {ErrSyntax, ErrType}

C14_Witness ==
    /\ op = "checkErr"
    /\ raw = Envelope(JStr(<<"a">>))
    /\ out.err = ErrType

(***************************************************************************)
(* Properties of the extraction operations (SpecDecode).                   *)
(***************************************************************************)
\* the JSON type each extraction operation expects of value; any type fits
\* valueConvertToJsonRawMessage
ExpectedKind ==
    [valueConvertToString |-> {"str"}, valueConvertToBool |-> {"bool"},
     valueConvertToSessionInfo |-> {"obj"},
     valueConvertToJsonRawMessage |-> {"str", "bool", "num", "arr", "obj", "null"},
     valueConvertToElementID |-> {"obj"}, valueConvertToElementIDs |-> {"arr"}]

\* r does not have the shape o expects: not JSON, an object without value,
\* or a value of another JSON type than the expected one (null aside)
ShapeMismatch(r, o) ==
    \/ r.k = "bad"
    \/ r.k = "obj" /\ "value" \notin DOMAIN r.o
    \/ r.k = "obj" /\ "value" \in DOMAIN r.o
         /\ r.o["value"].k \notin ExpectedKind[o] \cup {"null"}

\* C15: on a raw response of the wrong shape every extraction operation
\* returns a decode error, not a zero value with a nil error and not
\* errNoSuchElement
C15_ShapeMismatchIsDecodeError ==
    (op \in DOMAIN ExpectedKind /\ ShapeMismatch(raw, op)) =>
        out.err \in {ErrSyntax, ErrType}

C17_BodyClosedExactlyOnce ==
    \A p \in Calls :
        /\ closed[p] <= 1
        /\ (bodyState[p] # "none" /\ pc[p] \in {"unlock", "done"}) =>
              (bodyState[p] = "closed" /\ closed[p] = 1)
        /\ (bodyState[p] = "none") => closed[p] = 0

C17_Witness ==
    \E p \in Calls :
        /\ pc[p] = "done" /\ err[p] = ErrRead
        /\ bodyState[p] = "closed" /\ closed[p] = 1

\* C18: a call without a client override never holds the mutex and is never
\* at _mUSB.Lock() or _mUSB.Unlock(), the only place where a call waits; the
\* witness is such a call in flight while an override call holds the mutex
C18_DefaultClientNeverLocks ==
    \A p \in Calls :
        ~Override(p) =>
            /\ mutex # p
            /\ pc[p] \notin {"lock", "unlock"}

C18_Witness ==
    \E p \in Calls, q \in Calls :
        /\ ~Override(p) /\ Override(q)
        /\ mutex = q /\ pc[q] = "read"
        /\ pc[p] = "read"

\* C19: a call transmits at most once, whatever its outcome
C19_AtMostOneTransmission ==
    \A p \in Calls :
        /\ sent[p] <= 1
        /\ (pc[p] \in {"read", "check", "drain", "unlock", "done"}
              /\ err[p] # ErrNewRequest) => sent[p] = 1

C19_Witness ==
    \E p \in Calls :
        pc[p] = "done" /\ err[p] = ErrTransport /\ sent[p] = 1

\* an override call is in flight from _mUSB.Lock() granted to the deferred
\* Unlock
HoldsLock(p) == Override(p) /\ pc[p] \in {"do", "read", "check", "drain", "unlock"}

\* C21: the mutex is free whenever no override call is between Lock and
\* Unlock, whatever path the calls returned by; and, when every step
\* returns and the mutex is granted fairly, every call waiting at Lock
\* eventually holds the mutex and every call eventually returns with the
\* mutex no longer its own
C21_LockReleasedNoCallWaitsForever ==
    /\ []((\A p \in Calls : ~HoldsLock(p)) => mutex = 0)
    /\ \A p \in Calls : (pc[p] = "lock") ~> (mutex = p)
    /\ \A p \in Calls : Override(p) ~> (pc[p] = "done" /\ mutex # p)

C21_Witness ==
    \E p \in Calls, q \in Calls :
        /\ p # q /\ Override(p) /\ Override(q)
        /\ pc[p] = "done" /\ err[p] = ErrRead
        /\ pc[q] = "done" /\ err[q] = ErrTransport
        /\ mutex = 0

\* the four failures of a returned call, read off the steps it took
RequestFailed(p) == sent[p] = 0
ReadFailed(p) == readCalled[p] /\ ~checked[p]
Rejected(p) ==
    /\ checked[p]
    /\ resp[p].status # StatusOK
    /\ checkErr(resp[p].body) # Nil

\* C22: a returned call has a non-nil error exactly when newRequest failed,
\* client.Do failed, the body read failed, or the status is not 200 and
\* checkErr of the body is non-nil; otherwise the error is nil and the
\* rawResponse is the body. A status other than 200 with an envelope that
\* has no value.error, and a status 200 with a body that does not parse,
\* are both returned as success
C22_ErrorExactlyOnFailure ==
    \A p \in Calls :
        pc[p] = "done" =>
            /\ (err[p] # Nil) <=>
                  (RequestFailed(p) \/ DoFailed(p) \/ ReadFailed(p) \/ Rejected(p))
            /\ (err[p] = Nil) => (checked[p] /\ rawResp[p] = resp[p].body)
            /\ (checked[p] /\ resp[p].status # StatusOK
                   /\ resp[p].body = Envelope(JNull)) => err[p] = Nil
            /\ (checked[p] /\ resp[p].status = StatusOK
                   /\ resp[p].body = Malformed) => err[p] = Nil

C22_Witness ==
    \E p \in Calls, q \in Calls :
        /\ pc[p] = "done" /\ resp[p].status = 500
        /\ resp[p].body = Envelope(JNull) /\ rawResp[p] = Envelope(JNull)
        /\ err[p] = Nil
        /\ pc[q] = "done" /\ resp[q].status = StatusOK
        /\ resp[q].body = Malformed /\ rawResp[q] = Malformed
        /\ err[q] = Nil

(***************************************************************************)
(* Properties of repeated selector encoding (SpecSelector).                *)
(***************************************************************************)
\* C24: all the calls of getUsingAndValue on one selector return the same
\* (using, value) pair
C24_SameSelectorSameResult ==
    \A i \in DOMAIN encoded, j \in DOMAIN encoded :
        /\ encoded[i].using = encoded[j].using
        /\ encoded[i].value = encoded[j].value

(***************************************************************************)
(* Properties of keepAlive (SpecKeepAlive).                                *)
(***************************************************************************)
PollerInvariant ==
    \* one Status check for each tick received, none without a tick
    /\ received <= ticks
    /\ checks = (IF poller = "call" THEN received - 1 ELSE received)
    \* the first failed check stops the ticker and ends the goroutine
    /\ failures <= 1
    /\ (failures = 1) => (poller = "returned" /\ ticker = "stopped")
    \* no failed check, no stop
    /\ (failures = 0 /\ DefaultKeepAliveInterval > 0 /\ poller # "start") =>
          (ticker = "running" /\ poller # "returned")
    \* no ticker and no check without a positive interval
    /\ (DefaultKeepAliveInterval <= 0) =>
          (checks = 0 /\ ticker = "none" /\ poller \in {"start", "returned"})

\* C23: the poller makes one Status check per tick it receives; after the
\* first failed check the ticker is stopped, the goroutine has returned and
\* no further check is made; while no check has failed the ticker runs and
\* the goroutine has not returned; with DefaultKeepAliveInterval <= 0 the
\* goroutine returns without a ticker and without a check
C23_PollerStopsAfterFailedCheck ==
    /\ []PollerInvariant
    /\ [][(failures = 1) => (checks' = checks /\ ticks' = ticks
                              /\ poller' = "returned")]_vars
    /\ (DefaultKeepAliveInterval <= 0) ~> (poller = "returned")

C23_Witness ==
    /\ failures = 1 /\ checks = 2 /\ received = 2
    /\ poller = "returned" /\ ticker = "stopped"

(***************************************************************************)
(* Properties of SourceOption (SpecSourceOption).                          *)
(***************************************************************************)
\* "excluded_attributes" is present only without a format or with xml
ExcludedOnlyForXml ==
    ("excluded_attributes" \in DOMAIN opt) =>
        ("format" \notin DOMAIN opt \/ opt["format"] = "xml")

\* WithExcludedAttributes on a json or description option changes nothing
ExcludedIgnoredForOtherFormats ==
    [][(method' = "WithExcludedAttributes" /\ "format" \in DOMAIN opt
          /\ opt["format"] \in {"json", "description"}) => opt' = opt]_vars

\* C25: in every option built from NewSourceOption by the four methods,
\* "excluded_attributes" is present only if "format" is absent or "xml",
\* and WithExcludedAttributes leaves a json or description option unchanged
C25_ExcludedAttributesOnlyForXml ==
    []ExcludedOnlyForXml /\ ExcludedIgnoredForOtherFormats

=============================================================================
